---- MODULE Spec2Model ----
(***************************************************************************)
(* Model of js/api.js: the generic request() transport, the login session *)
(* (isLogin / currentUser), and the API wrappers built on request().      *)
(*                                                                         *)
(* One browser page runs one event loop.  An async function runs          *)
(* synchronously up to its first await that really suspends (fetch), and  *)
(* is resumed by the event loop when the awaited promise settles.  Each   *)
(* action below is one such run-to-completion step of one call:           *)
(*   - a *Call action: the synchronous prefix of an API function, up to   *)
(*     its return or up to the fetch it issues;                           *)
(*   - FetchSettles / ProbeFetchSettles: the awaited fetch() settles;     *)
(*   - BodySettles / ProbeBodySettles: the awaited response.json()        *)
(*     settles, request() returns and the awaiting wrapper continues (the *)
(*     wrapper's continuation is a microtask of the same task, so nothing *)
(*     else runs in between).                                             *)
(*                                                                         *)
(* Page functions built on the wrappers are modelled the same way: the    *)
(* page initializers (list table, form binding), the submit handlers they *)
(* bind, the edit-dialog openers, logout() and switchAccount() with its   *)
(* timer (TimerFires is the timer callback, one event-loop step).  The    *)
(* elements an initializer looks up are taken to exist on its page.  The  *)
(* loading cell an initializer writes into its table is tracked as the    *)
(* table's content, not as one of the page's loading indicators.          *)
(*                                                                         *)
(* Assigning window.location.href starts a navigation but does not stop   *)
(* the script: the document stays active until the new one arrives, so    *)
(* steps may still run after `location` changed.                          *)
(*                                                                         *)
(* The variable `last` records what the most recent step did (which call, *)
(* what it received, returned, alerted, assigned to location.href), so    *)
(* that a statement about one step of the code is a state predicate.      *)
(*                                                                         *)
(* JavaScript values are encoded with uniform record shapes:              *)
(*   - a value (payload, return value, currentUser) is a record           *)
(*     [k, id, avatarUrl, avatar]; k is its type tag;                     *)
(*   - an envelope code is [t, v]: the number v or the string of v's      *)
(*     decimal digits, so that === can tell 200 from "200";               *)
(*   - a string-valued property is a string; Absent stands for a missing  *)
(*     property (undefined).                                              *)
(* The Chinese literals of the source are written as ASCII glosses.       *)
(***************************************************************************)
EXTENDS Integers, Sequences, FiniteSets

\* ---------------------------------------------------------------- bounds
\* Calls that may be in flight at once in the transport specification.
TransportCalls == 2
\* Calls that may be in flight at once in the specification of all operations.
ApiCalls == 1
\* Calls that may be in flight at once in the session specification.
SessionCalls == 2
\* Calls that may be in flight at once in the account specification.
AccountCalls == 2
\* switchAccount() invocations whose logout or timer may be pending at once.
SwitchCalls == 1
\* Page functions that may be in flight at once in the page specification.
PageCalls == 2
\* Edit dialogs whose record fetch may be in flight at once.
ModalCalls == 2
\* Elements of class "loading-text" present in the page.
NumLoadingEls == 2

Max2(a, b) == IF a >= b THEN a ELSE b
Slots ==
    1 .. Max2(Max2(TransportCalls, ApiCalls),
              Max2(Max2(SessionCalls, Max2(PageCalls, ModalCalls)),
                   Max2(AccountCalls, SwitchCalls)))
LoadingEls == 1 .. NumLoadingEls

\* ------------------------------------------------------- JavaScript values
Absent == "<absent>"
\* ToBoolean of a string-valued property that may be missing.
FieldTruthy(f) == f # Absent /\ f # ""
\* Mutant: the value is shown as it is, without the fallback.
OrElse_NoFallback(f, fallback) == f
\* x || fallback
OrElse(f, fallback) == IF FieldTruthy(f) THEN f ELSE fallback

Prim(kind) == [k |-> kind, id |-> 0, avatarUrl |-> Absent, avatar |-> Absent]
Undefined == Prim("undefined")
Null == Prim("null")
True == Prim("true")
False == Prim("false")
Obj(i, u, a) == [k |-> "object", id |-> i, avatarUrl |-> u, avatar |-> a]
\* An array of n rows; the id field of the record holds its length.
List(n) == [k |-> "array", id |-> n, avatarUrl |-> Absent, avatar |-> Absent]
\* ToBoolean of a value.
Truthy(v) == v.k \in {"object", "array", "true"}

Num(n) == [t |-> "number", v |-> n]
Str(n) == [t |-> "string", v |-> n]
NoCode == [t |-> "undefined", v |-> 0]

\* --------------------------------------------------------- program literals
DEFAULT_AVATAR == "images/default-avatar.png"
TextLoading == "loading..."
TextBusinessFailed == "operation failed, please retry"
TextNetworkFailed == "load failed, check network/backend"
ColorLoading == "#999"
ColorFailed == "#f00"
MsgPleaseLogin == "please log in first"
MsgOperationFailed == "operation failed"
RequestLoginPage == "/login.html"
GateLoginPage == "login.html"
LandingPage == "index.html"
MsgLogoutDone == "logged out"
MsgLoginFirst == "please log in first!"
StartPage == "<current page>"
NoNav == "<no navigation>"

\* ------------------------------------------------------------------ state
VARIABLES
    isLogin,        \* let isLogin
    currentUser,    \* let currentUser
    location,       \* window.location.href
    loading,        \* the .loading-text elements: display, innerHTML, color
    loginView,      \* innerHTML of #loginContainer / #loginBtn
    calls,          \* per slot: the API call in flight and where it is suspended
    timers,         \* slots whose switchAccount() timer is pending
    tables,         \* per list table: what its innerHTML shows
    forms,          \* per form: dataset.binded and the submit handlers added
    modals,         \* per edit dialog: style.display and whether its fields were set
    last            \* what the most recent step did (observation of that step)

vars == <<isLogin, currentUser, location, loading, loginView, calls, timers, tables,
          forms, modals, last>>

\* The page state outside the session and the transport.
timerVars == <<timers>>
domVars == <<tables, forms, modals>>

\* The list tables, the forms the page initializers bind, the edit dialogs.
Tables == {"storyTable", "checkInTable", "collectionTable", "footprintTable"}
Forms == {"storyForm", "checkInForm", "editCheckInForm", "collectionForm",
          "footprintForm"}
Modals == {"editStoryModal", "editModal", "editCollectionModal"}
\* The elements whose innerHTML an initializer writes.
Views == Tables \cup {"dailyRecommend"}

\* A form as the markup delivers it: not marked bound, no submit handler.
MarkupForm == [binded |-> FALSE, handlers |-> 0]
\* An edit dialog as the markup delivers it: hidden, fields untouched.
MarkupModal == [display |-> "none", filled |-> FALSE]

Idle == [op |-> "idle", pc |-> "idle"]

NoBody == [json |-> "none", code |-> NoCode, msg |-> Absent, data |-> Undefined]

\* The markup of a loading element before any script touched it.
MarkupLoadingEl == [display |-> "", innerHTML |-> TextLoading, color |-> ""]

NoStep ==
    [step |-> "none", slot |-> 0, op |-> "none", args |-> <<>>, confirmed |-> FALSE,
     settled |-> FALSE, ret |-> Undefined, sent |-> FALSE, alerts |-> <<>>,
     net |-> "none", body |-> NoBody, redrawn |-> FALSE, nav |-> NoNav,
     rejected |-> FALSE, wasLogin |-> FALSE, sessionChanged |-> FALSE, added |-> 0]

\* Whether a step that leaves the session as (login, user) changes it.
SessionChanged(login, user) == login # isLogin \/ user # currentUser

\* window.location.href after a step that assigned `nav` to it (or did not).
Navigate(loc, nav) == IF nav = NoNav THEN loc ELSE nav

\* The script has loaded and nothing has run yet.
Loaded ==
    /\ isLogin = FALSE
    /\ currentUser = Null
    /\ location = StartPage
    /\ loading = [e \in LoadingEls |-> MarkupLoadingEl]
    /\ loginView \in {"<markup>", "<no element>"}
    /\ calls = [s \in Slots |-> Idle]
    /\ timers = {}
    /\ forms = [f \in Forms |-> MarkupForm]
    /\ modals = [m \in Modals |-> MarkupModal]
    /\ last = NoStep

Init ==
    /\ Loaded
    /\ tables = [t \in Views |-> "<markup>"]

\* ------------------------------------------------------------- request()
\* Mutant: only the number 200 counts as success.
IsSuccessCode_NumberOnly(c) == c.t = "number" /\ c.v = 200
\* result.code === "200" || result.code === 200
IsSuccessCode(c) == (c.t = "string" /\ c.v = 200) \/ (c.t = "number" /\ c.v = 200)
\* Mutant: only the number 401 counts as unauthenticated.
IsAuthCode_NumberOnly(c) == c.t = "number" /\ c.v = 401
\* result.code === "401" || result.code === 401
IsAuthCode(c) == (c.t = "string" /\ c.v = 401) \/ (c.t = "number" /\ c.v = 401)

\* Mutant: the indicators get the loading text and colour but are not shown.
ShowLoading_NotShown(els) ==
    [e \in LoadingEls |-> [els[e] EXCEPT !.innerHTML = TextLoading, !.color = ColorLoading]]
\* loadingElements.forEach at the start of request()
ShowLoading(els) ==
    [e \in LoadingEls |-> [display |-> "block", innerHTML |-> TextLoading, color |-> ColorLoading]]
\* loadingElements.forEach(el => el.style.display = 'none')
HideLoading(els) == [e \in LoadingEls |-> [els[e] EXCEPT !.display = "none"]]
\* Mutant: a failure also makes the indicator visible again.
FailLoading_ShownAgain(els, text) ==
    [e \in LoadingEls |-> [display |-> "block", innerHTML |-> text, color |-> ColorFailed]]
\* loadingElements.forEach(el => { el.innerHTML = text; el.style.color = "#f00" })
FailLoading(els, text) ==
    [e \in LoadingEls |-> [els[e] EXCEPT !.innerHTML = text, !.color = ColorFailed]]

\* Mutant: the catch block reports like a business error.
RequestCaught_LikeBusinessError(els) ==
    [ret |-> Null, alerts |-> <<MsgOperationFailed>>, nav |-> NoNav,
     loading |-> FailLoading(els, TextBusinessFailed)]
\* The catch block of request(): log, mark the indicators, return null.
RequestCaught(els) ==
    [ret |-> Null, alerts |-> <<>>, nav |-> NoNav,
     loading |-> FailLoading(els, TextNetworkFailed)]

\* request() from the point where response.json() settles with `body`.
RequestResult(body, els) ==
    IF body.json # "object"
    THEN \* malformed JSON rejects; JSON null makes result.code throw a TypeError
         RequestCaught(els)
    ELSE IF IsSuccessCode(body.code)
    THEN [ret |-> body.data, alerts |-> <<>>, nav |-> NoNav,
          loading |-> HideLoading(els)]
    ELSE IF IsAuthCode(body.code)
    THEN [ret |-> Undefined, alerts |-> <<OrElse(body.msg, MsgPleaseLogin)>>,
          nav |-> RequestLoginPage, loading |-> els]
    ELSE [ret |-> Null, alerts |-> <<OrElse(body.msg, MsgOperationFailed)>>,
          nav |-> NoNav, loading |-> FailLoading(els, TextBusinessFailed)]

\* ------------------------------------------------------------- session
\* updateLoginButton(): a stateless function of the session.
UpdateLoginButton(view, login, user) ==
    IF view = "<no element>" THEN view
    ELSE IF login /\ Truthy(user) THEN "userInfo" ELSE "loginLink"

\* Mutant: the avatar alias is not consulted.
FillAvatar_NoAlias(u) ==
    IF u.k = "object"
    THEN [u EXCEPT !.avatarUrl = IF FieldTruthy(u.avatarUrl) THEN u.avatarUrl
                                 ELSE DEFAULT_AVATAR]
    ELSE u
\* The avatar completion of doLogin and initLoginStatus.  Assigning a property
\* of a primitive is silently ignored in a classic (non-strict) script.
FillAvatar(u) ==
    LET a1 == IF ~FieldTruthy(u.avatarUrl) /\ FieldTruthy(u.avatar)
              THEN u.avatar ELSE u.avatarUrl
        a2 == IF ~FieldTruthy(a1) THEN DEFAULT_AVATAR ELSE a1
    IN IF u.k = "object" THEN [u EXCEPT !.avatarUrl = a2] ELSE u

\* Mutant: success is reported without storing the returned identity.
LoginResult_IdentityNotStored(result, login, user) ==
    IF Truthy(result)
    THEN [isLogin |-> TRUE, currentUser |-> user, ret |-> True, redrawn |-> TRUE]
    ELSE [isLogin |-> login, currentUser |-> user, ret |-> False, redrawn |-> FALSE]
\* doLogin after `await request(...)` returned `result`.
LoginResult(result, login, user) ==
    IF Truthy(result)
    THEN [isLogin |-> TRUE, currentUser |-> FillAvatar(result), ret |-> True,
          redrawn |-> TRUE]
    ELSE [isLogin |-> login, currentUser |-> user, ret |-> False, redrawn |-> FALSE]

\* Mutant: reading currentUser.avatarUrl of null / undefined does not throw.
ProbeTry_NoThrow(net, body, login, user) ==
    IF net = "error" \/ body.json # "object"
    THEN [threw |-> TRUE, isLogin |-> login, currentUser |-> user]
    ELSE IF IsSuccessCode(body.code)
    THEN [threw |-> FALSE, isLogin |-> TRUE, currentUser |-> body.data]
    ELSE [threw |-> FALSE, isLogin |-> FALSE, currentUser |-> Null]
\* The try block of initLoginStatus from the point where the probe's fetch
\* rejected (net = "error") or its response.json() settled with `body`.
\* Reading currentUser.avatarUrl of null / undefined throws after isLogin and
\* currentUser were assigned.
ProbeTry(net, body, login, user) ==
    IF net = "error" \/ body.json # "object"
    THEN \* fetch rejected, malformed JSON, or result.code of null
         [threw |-> TRUE, isLogin |-> login, currentUser |-> user]
    ELSE IF IsSuccessCode(body.code)
    THEN IF body.data.k \in {"null", "undefined"}
         THEN [threw |-> TRUE, isLogin |-> TRUE, currentUser |-> body.data]
         ELSE [threw |-> FALSE, isLogin |-> TRUE, currentUser |-> FillAvatar(body.data)]
    ELSE [threw |-> FALSE, isLogin |-> FALSE, currentUser |-> Null]

\* Mutant: no catch; what the try block threw rejects initLoginStatus.
ProbeResult_NoCatch(net, body, login, user) ==
    LET t == ProbeTry(net, body, login, user)
    IN [isLogin |-> t.isLogin, currentUser |-> t.currentUser, rejected |-> t.threw]
\* The try / catch of initLoginStatus: the catch clears the session.
ProbeResult(net, body, login, user) ==
    LET t == ProbeTry(net, body, login, user)
    IN IF t.threw
       THEN [isLogin |-> FALSE, currentUser |-> Null, rejected |-> FALSE]
       ELSE [isLogin |-> t.isLogin, currentUser |-> t.currentUser, rejected |-> FALSE]

\* Mutant: logout() leaves the navigation request() started on a 401 envelope.
LogoutResult_RedirectWins(r) ==
    [isLogin |-> FALSE, currentUser |-> Null, ret |-> Undefined, redrawn |-> TRUE,
     alerts |-> <<MsgLogoutDone>>,
     nav |-> IF r.nav = NoNav THEN LandingPage ELSE NoNav]
\* logout() after `await request(...)` returned `r`: whatever request() did,
\* the session is cleared, the indicator redrawn, the notice shown and
\* location.href assigned last.
LogoutResult(r) ==
    [isLogin |-> FALSE, currentUser |-> Null, ret |-> Undefined, redrawn |-> TRUE,
     alerts |-> <<MsgLogoutDone>>, nav |-> LandingPage]

\* ------------------------------------------------------------ API wrappers
\* Wrappers that only forward to request().
PlainOps ==
    {"getDailyRecommend", "getAllStories", "getStoryPage", "getCheckInPage",
     "getAllCheckIns", "getCollectionPage", "getAllCollections"}

\* Wrappers that check required fields first; the checks in source order.
ValidatedOps ==
    {"addCultureStory", "updateCultureStory", "getStoryById", "addCheckIn",
     "getCheckInById", "updateCheckIn", "addCultureCollection", "getCollectionById",
     "updateCultureCollection"}

\* Wrappers that ask confirm() first.
ConfirmOps == {"deleteCultureStory", "deleteCheckIn", "deleteCultureCollection"}

\* Wrappers that check isLogin first, alert and navigate when it is false.
GatedOps ==
    {"buyCollection", "getMyCollectionOrders", "addUserFootprint", "getMyFootprint",
     "deleteFootprint"}

\* Mutant: deleteFootprint has no login gate.
Gate_DeleteUngated(op, login) ==
    /\ op \in {"buyCollection", "getMyCollectionOrders", "addUserFootprint",
               "getMyFootprint"}
    /\ ~login
\* if (!isLogin) at the head of a gated wrapper.
Gate(op, login) ==
    /\ op \in {"buyCollection", "getMyCollectionOrders", "addUserFootprint",
               "getMyFootprint", "deleteFootprint"}
    /\ ~login

\* Number of required-field checks of a wrapper.
Required(op) ==
    CASE op = "addCultureStory" -> 3
      [] op = "addCheckIn" -> 2
      [] op = "addCultureCollection" -> 4
      [] op \in {"updateCultureStory", "getStoryById", "getCheckInById", "updateCheckIn",
                 "getCollectionById", "updateCultureCollection", "buyCollection",
                 "addUserFootprint"} -> 1
      [] OTHER -> 0

\* Whether the wrapper asks confirm() before the request.
AsksConfirm(op) == op \in ConfirmOps \/ op = "deleteFootprint"

\* The alert of the i-th failed check of a wrapper.
ValidationMsg(op, i) ==
    CASE op = "addCultureStory" /\ i = 1 -> "enter the story title"
      [] op = "addCultureStory" /\ i = 2 -> "enter the story content"
      [] op = "addCultureStory" /\ i = 3 -> "choose the publish date"
      [] op \in {"updateCultureStory", "getStoryById"} -> "missing story id"
      [] op = "addCheckIn" /\ i = 1 -> "enter the user id"
      [] op = "addCheckIn" /\ i = 2 -> "enter the check-in content"
      [] op \in {"getCheckInById", "updateCheckIn"} -> "missing check-in id"
      [] op = "addCultureCollection" /\ i = 1 -> "enter the collection name"
      [] op = "addCultureCollection" /\ i = 2 -> "enter the creator"
      [] op = "addCultureCollection" /\ i = 3 -> "enter a valid price"
      [] op = "addCultureCollection" /\ i = 4 -> "enter a valid stock"
      [] op \in {"getCollectionById", "updateCultureCollection"} -> "missing collection id"
      [] op = "buyCollection" -> "choose the collection to buy"
      [] op = "addUserFootprint" -> "enter the check-in place"
      [] op = "doRegister" /\ i = 1 -> "enter the user name"
      [] op = "doRegister" /\ i = 2 -> "enter the password"
      [] op = "doRegister" /\ i = 3 -> "the passwords differ"
      [] op = "doLogin" /\ i = 1 -> "enter the user name"
      [] op = "doLogin" /\ i = 2 -> "enter the password"
      [] OTHER -> "<none>"

\* The alert of a failed login gate.
GateMsg(op) ==
    CASE op = "buyCollection" -> "log in before buying a collection"
      [] op = "getMyCollectionOrders" -> "log in to see my orders"
      [] op = "addUserFootprint" -> "log in before adding a footprint"
      [] op = "getMyFootprint" -> "log in to see my footprints"
      [] op = "deleteFootprint" -> "log in before deleting a footprint"
      [] OTHER -> "<none>"

\* Index of the first required field that is falsy, 0 when none is.
\* (For the price / stock checks "" stands for undefined or NaN.)
FirstMissing(fields) ==
    IF \E i \in 1 .. Len(fields) : ~FieldTruthy(fields[i])
    THEN CHOOSE i \in 1 .. Len(fields) :
            /\ ~FieldTruthy(fields[i])
            /\ \A j \in 1 .. (i - 1) : FieldTruthy(fields[j])
    ELSE 0

\* The checks of doRegister: username, password, password !== confirmPassword.
RegisterFailedCheck(fields) ==
    IF ~FieldTruthy(fields[1]) THEN 1
    ELSE IF ~FieldTruthy(fields[2]) THEN 2
    ELSE IF fields[2] # fields[3] THEN 3
    ELSE 0

\* What a wrapper returns when one of its own checks fails.
ValidationReturn(op) ==
    CASE op = "doRegister" -> Undefined
      [] op = "doLogin" -> False
      [] OTHER -> Null

\* The synchronous prefix of a wrapper, up to its own return or up to its call
\* of request(): login gate, required fields, confirm(), in source order.
WrapperPrefix(op, login, fields, cf) ==
    IF Gate(op, login)
    THEN [dispatch |-> FALSE, ret |-> Null, alerts |-> <<GateMsg(op)>>,
          nav |-> GateLoginPage]
    ELSE IF FirstMissing(fields) # 0
    THEN [dispatch |-> FALSE, ret |-> ValidationReturn(op),
          alerts |-> <<ValidationMsg(op, FirstMissing(fields))>>, nav |-> NoNav]
    ELSE IF AsksConfirm(op) /\ ~cf
    THEN [dispatch |-> FALSE, ret |-> Null, alerts |-> <<>>, nav |-> NoNav]
    ELSE [dispatch |-> TRUE, ret |-> Undefined, alerts |-> <<>>, nav |-> NoNav]

\* Mutant: getPersonalRecommend gated like the other wrappers.
PersonalRecommendPrefix_Alerting(login) ==
    IF ~login
    THEN [dispatch |-> FALSE, ret |-> Null, alerts |-> <<MsgPleaseLogin>>,
          nav |-> GateLoginPage]
    ELSE [dispatch |-> TRUE, ret |-> Undefined, alerts |-> <<>>, nav |-> NoNav]
\* getPersonalRecommend up to its return or its call of request().
PersonalRecommendPrefix(login) ==
    IF ~login
    THEN [dispatch |-> FALSE, ret |-> Null, alerts |-> <<>>, nav |-> NoNav]
    ELSE [dispatch |-> TRUE, ret |-> Undefined, alerts |-> <<>>, nav |-> NoNav]

\* doRegister up to its return or its call of request().
RegisterPrefix(fields) ==
    IF RegisterFailedCheck(fields) # 0
    THEN [dispatch |-> FALSE, ret |-> ValidationReturn("doRegister"),
          alerts |-> <<ValidationMsg("doRegister", RegisterFailedCheck(fields))>>,
          nav |-> NoNav]
    ELSE [dispatch |-> TRUE, ret |-> Undefined, alerts |-> <<>>, nav |-> NoNav]

\* doLogin up to its return or its call of request().
LoginPrefix(fields) ==
    IF FirstMissing(fields) # 0
    THEN [dispatch |-> FALSE, ret |-> ValidationReturn("doLogin"),
          alerts |-> <<ValidationMsg("doLogin", FirstMissing(fields))>>, nav |-> NoNav]
    ELSE [dispatch |-> TRUE, ret |-> Undefined, alerts |-> <<>>, nav |-> NoNav]

\* ------------------------------------------------- pages, forms, dialogs
PageInits == {"initStoryPage", "initCheckInPage", "initCollectionPage",
              "initFootprintPage"}

\* The table a page initializer fills, and the wrapper that fetches its list.
TableOf(page) ==
    CASE page = "initStoryPage" -> "storyTable"
      [] page = "initCheckInPage" -> "checkInTable"
      [] page = "initCollectionPage" -> "collectionTable"
      [] page = "initFootprintPage" -> "footprintTable"

\* The forms a page initializer binds, in source order.
FormsOf(page) ==
    CASE page = "initStoryPage" -> {"storyForm"}
      [] page = "initCheckInPage" -> {"checkInForm", "editCheckInForm"}
      [] page = "initCollectionPage" -> {"collectionForm"}
      [] page = "initFootprintPage" -> {"footprintForm"}

\* The initializer that binds a form and that its submit handler calls again.
PageOf(form) == CHOOSE page \in PageInits : form \in FormsOf(page)

\* The wrapper a form's submit handler awaits.
SubmitOp(form) ==
    CASE form = "storyForm" -> "addCultureStory"
      [] form = "checkInForm" -> "addCheckIn"
      [] form = "editCheckInForm" -> "updateCheckIn"
      [] form = "collectionForm" -> "addCultureCollection"
      [] form = "footprintForm" -> "addUserFootprint"

\* The alert of a submit handler whose wrapper returned a truthy result.
SubmitDoneMsg(form) ==
    CASE form = "storyForm" -> "story added"
      [] form = "checkInForm" -> "checked in"
      [] form = "editCheckInForm" -> "edited"
      [] form = "collectionForm" -> "collection added"
      [] form = "footprintForm" -> "footprint added"

\* The wrapper an open...EditModal function calls, and the dialog it shows.
ModalOpeners == {"openStoryEditModal", "openCheckInEditModal",
                 "openCollectionEditModal"}
FetchOf(opener) ==
    CASE opener = "openStoryEditModal" -> "getStoryById"
      [] opener = "openCheckInEditModal" -> "getCheckInById"
      [] opener = "openCollectionEditModal" -> "getCollectionById"
ModalOf(opener) ==
    CASE opener = "openStoryEditModal" -> "editStoryModal"
      [] opener = "openCheckInEditModal" -> "editModal"
      [] opener = "openCollectionEditModal" -> "editCollectionModal"

\* What a table shows: the loading cell, the rows of the list, the
\* empty-state message of that table, or the error-state message.
TableRows == "<rows>"
TableFailed == "load failed, please retry"
TableEmpty(table) ==
    CASE table = "storyTable" -> "no culture story data"
      [] table = "checkInTable" -> "no check-in records"
      [] table = "collectionTable" -> "no digital collections"
      [] table = "footprintTable" -> "no personal footprints"
      [] table = "dailyRecommend" -> "no daily recommendation"

\* try { list = await getAll...(); if (list && list.length > 0) rows else
\* empty } catch { failed }: `threw` says whether the awaited wrapper rejected.
ListRender(table, threw, list) ==
    IF threw THEN TableFailed
    ELSE IF list.k = "array" /\ list.id > 0 THEN TableRows
    ELSE TableEmpty(table)

\* `await request(...)` inside a wrapper never rejects: request() catches
\* every exception of its try block and returns null (lines 59-66).
WrapperRejects == FALSE

\* Mutant: the form is bound without looking at dataset.binded.
Bind_Unmarked(form) ==
    [binded |-> TRUE, handlers |-> form.handlers + 1]
\* if (!form.dataset.binded) { form.dataset.binded = 'true';
\* form.addEventListener('submit', ...) }
Bind(form) ==
    IF form.binded THEN form
    ELSE [binded |-> TRUE, handlers |-> form.handlers + 1]

\* The page state a page function works on, and a step that leaves it alone.
Dom == [tables |-> tables, forms |-> forms, modals |-> modals]
Stay(d) ==
    [tables |-> d.tables, forms |-> d.forms, modals |-> d.modals, alerts |-> <<>>,
     nav |-> NoNav, next |-> "idle"]

\* A page initializer from its first line up to its first request():
\* initFootprintPage turns a logged-out visitor away, initStoryPage first
\* fetches the daily recommendation, the others show the loading row and
\* fetch their list.  `next` names the function that is then suspended.
EnterInit(page, login, d) ==
    IF page = "initFootprintPage" /\ ~login
    THEN [Stay(d) EXCEPT !.alerts = <<MsgLoginFirst>>, !.nav = GateLoginPage]
    ELSE IF page = "initStoryPage"
    THEN [Stay(d) EXCEPT !.next = "initStoryPage.daily"]
    ELSE [Stay(d) EXCEPT !.tables[TableOf(page)] = TextLoading, !.next = page]

\* initStoryPage after `await getDailyRecommend('story')`: the recommendation
\* is rendered, the table shows the loading row, the list is fetched.
AfterDaily(recommend, d) ==
    [Stay(d) EXCEPT
        !.tables["dailyRecommend"] =
            IF WrapperRejects THEN TableFailed
            ELSE IF recommend.k = "object" /\ recommend.id # 0 THEN TableRows
            ELSE TableEmpty("dailyRecommend"),
        !.tables["storyTable"] = TextLoading,
        !.next = "initStoryPage"]

\* A page initializer after `await getAll...()`: the list is rendered and
\* the forms of the page are bound.
AfterList(page, list, d) ==
    [Stay(d) EXCEPT
        !.tables[TableOf(page)] = ListRender(TableOf(page), WrapperRejects, list),
        !.forms = [f \in Forms |-> IF f \in FormsOf(page) THEN Bind(d.forms[f])
                                   ELSE d.forms[f]]]

\* A submit handler after its awaited wrapper returned `result`: on a truthy
\* result it alerts, closes the edit dialog (editCheckInForm) and calls the
\* initializer of its page again.
AfterSubmit(form, result, login, d) ==
    IF Truthy(result)
    THEN LET closed == IF form = "editCheckInForm"
                       THEN [d EXCEPT !.modals["editModal"].display = "none"]
                       ELSE d
             e == EnterInit(PageOf(form), login, closed)
         IN [e EXCEPT !.alerts = <<SubmitDoneMsg(form)>> \o e.alerts]
    ELSE Stay(d)

\* The alert of the .catch() of an open...EditModal function.
ModalFailedMsg(opener) ==
    CASE opener = "openStoryEditModal" -> "loading the story failed"
      [] opener = "openCheckInEditModal" -> "loading the check-in failed"
      [] opener = "openCollectionEditModal" -> "loading the collection failed"

\* getXById(id).then(item => { if (item) { fields...; display = 'flex' } })
\* .catch(error => alert(...)): the .catch() runs only when the wrapper rejects.
AfterModalFetch(opener, item, d) ==
    IF WrapperRejects
    THEN [Stay(d) EXCEPT !.alerts = <<ModalFailedMsg(opener)>>]
    ELSE IF Truthy(item)
    THEN [Stay(d) EXCEPT !.modals[ModalOf(opener)] = [display |-> "flex", filled |-> TRUE]]
    ELSE Stay(d)

\* The page function suspended as `op` continues with what its wrapper returned.
PageContinue(op, ret, login, d) ==
    CASE op = "initStoryPage.daily" -> AfterDaily(ret, d)
      [] op \in PageInits -> AfterList(op, ret, d)
      [] op \in Forms -> AfterSubmit(op, ret, login, d)
      [] op \in ModalOpeners -> AfterModalFetch(op, ret, d)

\* Suspended page functions: initializers, submit handlers (named by their
\* form), dialog openers.
PageCallOps == PageInits \cup {"initStoryPage.daily"} \cup Forms \cup ModalOpeners

\* ------------------------------------------------------------------ inputs
FieldVals == {"", "v"}
Passwords == {"", "p", "q"}
FieldSeqs(n) == [1 .. n -> FieldVals]

SuccessCodes == {Num(200), Str(200)}
AuthCodes == {Num(401), Str(401)}
OtherCodes == {Num(500), Str(500), NoCode}
MsgVals == {Absent, "", "denied"}

Env(c, m, d) == [json |-> "object", code |-> c, msg |-> m, data |-> d]
Malformed == [NoBody EXCEPT !.json = "malformed"]
JsonNull == [NoBody EXCEPT !.json = "null"]

PlainData == {Null, Undefined, Obj(1, Absent, Absent)}
AvatarUrls == {Absent, "", "u.png"}
Avatars == {Absent, "", "a.png"}
Identities == {Obj(1, u, a) : u \in AvatarUrls, a \in Avatars}

\* Every code with every msg and payload: the transport specification.
TransportBodies ==
    {Malformed, JsonNull}
        \cup {Env(c, m, d) : c \in SuccessCodes \cup AuthCodes \cup OtherCodes,
                             m \in MsgVals, d \in PlainData}

\* The specification of all operations.
ApiBodies ==
    {Malformed, JsonNull}
        \cup {Env(c, m, d) : c \in SuccessCodes \cup AuthCodes \cup {Num(500)},
                             m \in {Absent, "denied"}, d \in {Null, Obj(1, Absent, Absent)}}

\* The session specification: every identity payload under the success codes.
SessionBodies ==
    {Malformed, JsonNull}
        \cup {Env(c, "ok", d) : c \in SuccessCodes, d \in Identities \cup {Null, Undefined}}
        \cup {Env(c, "denied", Null) : c \in AuthCodes \cup {Num(500)}}

\* One response of each outcome class, the 200 envelope with and without an
\* identity: the account specification.
AccountBodies ==
    {Malformed}
        \cup {Env(Num(200), "ok", d) : d \in {Obj(1, Absent, Absent), Null, Undefined}}
        \cup {Env(c, "denied", Null) : c \in {Str(401), Num(500)}}

\* List payloads and the envelope classes: the page specification.
PageBodies ==
    {Env(Num(200), "ok", d) : d \in {List(0), List(2), Obj(1, Absent, Absent)}}
        \cup {Env(c, "denied", Null) : c \in {Num(401), Num(500)}}

\* The login endpoint answers with an identity object, never with a list.
AnswerFor(op, body) == op = "doLogin" => body.data.k # "array"

\* Form contents: every required field filled, or the first one left empty.
PageFields(n) ==
    {[i \in 1 .. n |-> "v"], [i \in 1 .. n |-> IF i = 1 THEN "" ELSE "v"]}

NetOutcomes == {"error", "notok", "ok"}

\* ----------------------------------------------------------------- actions
\* The function whose continuation runs when request() returns.  Every wrapper
\* but doLogin is `return await request(...)`: its continuation hands on what
\* request() returned, so a suspended wrapper is recorded as "request".
OwnContinuation == {"doLogin", "logout", "switchAccount"}
Awaiting(op) == IF op \in OwnContinuation THEN op ELSE "request"

\* A call that ends in its synchronous prefix, or enters request() and is
\* suspended at `await fetch(...)` with the indicators set to loading.
CallStep(s, op, fields, cf, p) ==
    /\ location' = Navigate(location, p.nav)
    /\ loading' = IF p.dispatch THEN ShowLoading(loading) ELSE loading
    /\ calls' = IF p.dispatch
                THEN [calls EXCEPT ![s] = [op |-> Awaiting(op), pc |-> "fetch"]]
                ELSE calls
    /\ last' = [NoStep EXCEPT !.step = "call", !.slot = s, !.op = op, !.args = fields,
                              !.confirmed = cf, !.settled = ~p.dispatch, !.ret = p.ret,
                              !.sent = p.dispatch, !.alerts = p.alerts, !.nav = p.nav,
                              !.wasLogin = isLogin]
    /\ UNCHANGED <<isLogin, currentUser, loginView, domVars>>

WrapperCall(s, op, fields, cf) ==
    /\ calls[s] = Idle
    /\ CallStep(s, op, fields, cf, WrapperPrefix(op, isLogin, fields, cf))
    /\ UNCHANGED timerVars

PersonalRecommendCall(s) ==
    /\ calls[s] = Idle
    /\ CallStep(s, "getPersonalRecommend", <<>>, FALSE, PersonalRecommendPrefix(isLogin))
    /\ UNCHANGED timerVars

RegisterCall(s, fields) ==
    /\ calls[s] = Idle
    /\ CallStep(s, "doRegister", fields, FALSE, RegisterPrefix(fields))
    /\ UNCHANGED timerVars

LoginCall(s, fields) ==
    /\ calls[s] = Idle
    /\ CallStep(s, "doLogin", fields, FALSE, LoginPrefix(fields))
    /\ UNCHANGED timerVars

\* logout() up to the fetch of its request('/user/logout', 'POST').
LogoutPrefix == [dispatch |-> TRUE, ret |-> Undefined, alerts |-> <<>>, nav |-> NoNav]

LogoutCall(s) ==
    /\ calls[s] = Idle
    /\ CallStep(s, "logout", <<>>, FALSE, LogoutPrefix)
    /\ UNCHANGED timerVars

\* switchAccount(): when confirmed, logout() runs up to its fetch (it is not
\* awaited) and the 500 ms timer is started; otherwise nothing happens.
SwitchAccountCall(s, cf) ==
    /\ calls[s] = Idle
    /\ s \notin timers
    /\ IF cf
       THEN /\ CallStep(s, "switchAccount", <<>>, TRUE, LogoutPrefix)
            /\ timers' = timers \cup {s}
       ELSE /\ last' = [NoStep EXCEPT !.step = "call", !.slot = s,
                                      !.op = "switchAccount", !.settled = TRUE,
                                      !.wasLogin = isLogin]
            /\ UNCHANGED <<isLogin, currentUser, location, loading, loginView, calls,
                           timerVars, domVars>>

\* The timer of switchAccount() fires: location.href = 'login.html'.  `settled`
\* records whether the logout() it started had returned by then.
TimerFires(s) ==
    /\ s \in timers
    /\ timers' = timers \ {s}
    /\ location' = GateLoginPage
    /\ last' = [NoStep EXCEPT !.step = "timer", !.slot = s, !.op = "switchAccount",
                              !.settled = (calls[s].op # "switchAccount"),
                              !.nav = GateLoginPage, !.wasLogin = isLogin]
    /\ UNCHANGED <<isLogin, currentUser, loading, loginView, calls, domVars>>

\* initLoginStatus up to `await fetch(...)`: its own fetch, no indicator change.
InitLoginStatusCall(s) ==
    /\ calls[s] = Idle
    /\ calls' = [calls EXCEPT ![s] = [op |-> "initLoginStatus", pc |-> "fetch"]]
    /\ last' = [NoStep EXCEPT !.step = "call", !.slot = s, !.op = "initLoginStatus",
                              !.sent = TRUE, !.wasLogin = isLogin]
    /\ UNCHANGED <<isLogin, currentUser, location, loading, loginView, timerVars, domVars>>

\* What the function awaiting request() does once request() returned `r`:
\* the session it leaves, what it returns, whether it redraws the login
\* indicator, what it alerts and assigns to location.href after request() did.
Continuation(op, r, login, user) ==
    IF op = "doLogin"
    THEN LET c == LoginResult(r.ret, login, user)
         IN [isLogin |-> c.isLogin, currentUser |-> c.currentUser, ret |-> c.ret,
             redrawn |-> c.redrawn, alerts |-> <<>>, nav |-> NoNav]
    ELSE IF op \in {"logout", "switchAccount"}
    THEN LogoutResult(r)
    ELSE [isLogin |-> login, currentUser |-> user, ret |-> r.ret, redrawn |-> FALSE,
          alerts |-> <<>>, nav |-> NoNav]

\* request() returns `r`; the awaiting function continues and returns.
Finish(s, step, net, body, r) ==
    LET op == calls[s].op
        c == Continuation(op, r, isLogin, currentUser)
    IN /\ isLogin' = c.isLogin
       /\ currentUser' = c.currentUser
       /\ loginView' = IF c.redrawn
                       THEN UpdateLoginButton(loginView, c.isLogin, c.currentUser)
                       ELSE loginView
       /\ location' = Navigate(Navigate(location, r.nav), c.nav)
       /\ loading' = r.loading
       /\ calls' = [calls EXCEPT ![s] = Idle]
       /\ last' = [NoStep EXCEPT !.step = step, !.slot = s, !.op = op, !.settled = TRUE,
                                 !.ret = c.ret, !.alerts = r.alerts \o c.alerts,
                                 !.net = net, !.body = body, !.redrawn = c.redrawn,
                                 !.nav = Navigate(r.nav, c.nav),
                                 !.wasLogin = isLogin,
                                 !.sessionChanged =
                                     SessionChanged(c.isLogin, c.currentUser)]
       /\ UNCHANGED <<timerVars, domVars>>

\* A step of a page function: `r` is what request() (or the wrapper's own
\* prefix) did and returned, `e` what the page function did after it.  When the
\* page function goes on to another request(), the indicators are set to
\* loading again and the function is suspended at that fetch.
PageApply(s, r, e, rec) ==
    /\ tables' = e.tables
    /\ forms' = e.forms
    /\ modals' = e.modals
    /\ location' = Navigate(Navigate(location, r.nav), e.nav)
    /\ loading' = IF e.next = "idle" THEN r.loading ELSE ShowLoading(r.loading)
    /\ calls' = [calls EXCEPT ![s] = IF e.next = "idle" THEN Idle
                                     ELSE [op |-> e.next, pc |-> "fetch"]]
    /\ last' = [rec EXCEPT !.slot = s, !.ret = r.ret, !.alerts = r.alerts \o e.alerts,
                           !.nav = Navigate(r.nav, e.nav), !.settled = (e.next = "idle"),
                           !.sent = (e.next # "idle"), !.wasLogin = isLogin,
                           !.added = Cardinality({f \in Forms :
                                         e.forms[f].handlers > forms[f].handlers})]
    /\ UNCHANGED <<isLogin, currentUser, loginView, timerVars>>

\* No request() ran in this step.
NoRequest == [ret |-> Undefined, alerts |-> <<>>, nav |-> NoNav, loading |-> loading]

\* The initializer of the document's page type is called (initPage on load,
\* or a script of the page).
PageInitCall(s, page) ==
    /\ calls[s] = Idle
    /\ tables[TableOf(page)] # "<no element>"
    /\ PageApply(s, NoRequest, EnterInit(page, isLogin, Dom),
                 [NoStep EXCEPT !.step = "call", !.op = page])

\* A submit event on a form runs its handler: the wrapper's checks, then the
\* request, or the rest of the handler when the wrapper returned at once.
SubmitCall(s, form, fields) ==
    /\ calls[s] = Idle
    /\ forms[form].handlers > 0
    /\ LET p == WrapperPrefix(SubmitOp(form), isLogin, fields, FALSE)
       IN PageApply(s, [NoRequest EXCEPT !.ret = p.ret, !.alerts = p.alerts,
                                         !.nav = p.nav],
                    IF p.dispatch THEN [Stay(Dom) EXCEPT !.next = form]
                    ELSE AfterSubmit(form, p.ret, isLogin, Dom),
                    [NoStep EXCEPT !.step = "call", !.op = form, !.args = fields])

\* An edit button calls open...EditModal(id).
OpenModalCall(s, opener, id) ==
    /\ calls[s] = Idle
    /\ LET p == WrapperPrefix(FetchOf(opener), isLogin, <<id>>, FALSE)
       IN PageApply(s, [NoRequest EXCEPT !.ret = p.ret, !.alerts = p.alerts,
                                         !.nav = p.nav],
                    IF p.dispatch THEN [Stay(Dom) EXCEPT !.next = opener]
                    ELSE AfterModalFetch(opener, p.ret, Dom),
                    [NoStep EXCEPT !.step = "call", !.op = opener, !.args = <<id>>])

\* request() returns `r` to a suspended page function, which continues.
PageFinish(s, step, net, body, r) ==
    PageApply(s, r, PageContinue(calls[s].op, r.ret, isLogin, Dom),
              [NoStep EXCEPT !.step = step, !.op = calls[s].op, !.net = net,
                             !.body = body])

\* request() returns `r` to whichever function awaits it in slot s.
Settle(s, step, net, body, r) ==
    IF calls[s].op \in PageCallOps
    THEN PageFinish(s, step, net, body, r)
    ELSE Finish(s, step, net, body, r)

\* The fetch of request() settles: rejected, a non-2xx status, or a 2xx status.
FetchSettles(s, net) ==
    /\ calls[s].pc = "fetch"
    /\ calls[s].op # "initLoginStatus"
    /\ IF net = "ok"
       THEN /\ calls' = [calls EXCEPT ![s].pc = "json"]
            /\ last' = [NoStep EXCEPT !.step = "fetch", !.slot = s, !.op = calls[s].op,
                                      !.net = net, !.wasLogin = isLogin]
            /\ UNCHANGED <<isLogin, currentUser, location, loading, loginView, timerVars, domVars>>
       ELSE Settle(s, "fetch", net, NoBody, RequestCaught(loading))

\* response.json() of request() settles with `body`.
BodySettles(s, body) ==
    /\ calls[s].pc = "json"
    /\ calls[s].op # "initLoginStatus"
    /\ Settle(s, "body", "ok", body, RequestResult(body, loading))

\* initLoginStatus after its try / catch: session set, indicator redrawn.
ProbeFinish(s, step, net, body) ==
    LET c == ProbeResult(net, body, isLogin, currentUser)
    IN /\ isLogin' = c.isLogin
       /\ currentUser' = c.currentUser
       /\ loginView' = IF c.rejected THEN loginView
                       ELSE UpdateLoginButton(loginView, c.isLogin, c.currentUser)
       /\ calls' = [calls EXCEPT ![s] = Idle]
       /\ last' = [NoStep EXCEPT !.step = step, !.slot = s, !.op = "initLoginStatus",
                                 !.settled = TRUE, !.ret = Undefined, !.net = net,
                                 !.body = body, !.redrawn = ~c.rejected,
                                 !.rejected = c.rejected, !.wasLogin = isLogin,
                                 !.sessionChanged =
                                     SessionChanged(c.isLogin, c.currentUser)]
       /\ UNCHANGED <<location, loading, timerVars, domVars>>

\* The probe's fetch settles; response.ok is not looked at.
ProbeFetchSettles(s, net) ==
    /\ calls[s] = [op |-> "initLoginStatus", pc |-> "fetch"]
    /\ IF net = "error"
       THEN ProbeFinish(s, "fetch", net, NoBody)
       ELSE /\ calls' = [calls EXCEPT ![s].pc = "json"]
            /\ last' = [NoStep EXCEPT !.step = "fetch", !.slot = s,
                                      !.op = "initLoginStatus", !.net = net,
                                      !.wasLogin = isLogin]
            /\ UNCHANGED <<isLogin, currentUser, location, loading, loginView, timerVars, domVars>>

\* The probe's response.json() settles with `body`.
ProbeBodySettles(s, body) ==
    /\ calls[s] = [op |-> "initLoginStatus", pc |-> "json"]
    /\ ProbeFinish(s, "body", "unchecked", body)

\* ----------------------------------------------------------- specifications
WrapperOps == PlainOps \cup ValidatedOps \cup ConfirmOps \cup GatedOps
Confirms(op) == IF AsksConfirm(op) THEN BOOLEAN ELSE {FALSE}
LoginFields == [1 .. 2 -> FieldVals]
RegisterFields == {<<u, p, c>> : u \in FieldVals, p \in Passwords, c \in Passwords}

\* Every API wrapper, doRegister, doLogin and the probe, ApiCalls of them in
\* flight at once.
Next ==
    \E s \in 1 .. ApiCalls :
        \/ \E op \in WrapperOps : \E f \in FieldSeqs(Required(op)) : \E cf \in Confirms(op) :
              WrapperCall(s, op, f, cf)
        \/ PersonalRecommendCall(s)
        \/ \E f \in RegisterFields : RegisterCall(s, f)
        \/ \E f \in LoginFields : LoginCall(s, f)
        \/ InitLoginStatusCall(s)
        \/ \E net \in NetOutcomes : FetchSettles(s, net)
        \/ \E body \in ApiBodies : BodySettles(s, body)
        \/ \E net \in NetOutcomes : ProbeFetchSettles(s, net)
        \/ \E body \in ApiBodies : ProbeBodySettles(s, body)

Spec == Init /\ [][Next]_vars

\* Calls of request() through a plain wrapper, racing on the indicators, with
\* every envelope code, msg and payload.
TransportNext ==
    \E s \in 1 .. TransportCalls :
        \/ WrapperCall(s, "getAllStories", <<>>, FALSE)
        \/ \E net \in NetOutcomes : FetchSettles(s, net)
        \/ \E body \in TransportBodies : BodySettles(s, body)

TransportSpec == Init /\ [][TransportNext]_vars

\* The operations that write the session, racing on it, with every identity
\* payload.
SessionNext ==
    \E s \in 1 .. SessionCalls :
        \/ \E f \in LoginFields : LoginCall(s, f)
        \/ InitLoginStatusCall(s)
        \/ \E net \in NetOutcomes : FetchSettles(s, net)
        \/ \E body \in SessionBodies : BodySettles(s, body)
        \/ \E net \in NetOutcomes : ProbeFetchSettles(s, net)
        \/ \E body \in SessionBodies : ProbeBodySettles(s, body)

SessionSpec == Init /\ [][SessionNext]_vars

\* Login, probe and logout racing on the session and on location.href.
AccountNext ==
    \E s \in 1 .. AccountCalls :
        \/ LoginCall(s, <<"v", "v">>)
        \/ InitLoginStatusCall(s)
        \/ LogoutCall(s)
        \/ \E net \in NetOutcomes : FetchSettles(s, net)
        \/ \E body \in AccountBodies : BodySettles(s, body)
        \/ \E net \in NetOutcomes : ProbeFetchSettles(s, net)
        \/ \E body \in AccountBodies : ProbeBodySettles(s, body)

AccountSpec == Init /\ [][AccountNext]_vars

\* switchAccount(): its logout call racing with its timer, after a login.
SwitchNext ==
    \E s \in 1 .. SwitchCalls :
        \/ LoginCall(s, <<"v", "v">>)
        \/ \E cf \in BOOLEAN : SwitchAccountCall(s, cf)
        \/ TimerFires(s)
        \/ \E net \in NetOutcomes : FetchSettles(s, net)
        \/ \E body \in AccountBodies : BodySettles(s, body)

SwitchSpec == Init /\ [][SwitchNext]_vars

\* The document of one page type: it holds the table of that page only (and,
\* on the story page, the daily recommendation).
ViewsOn(page) ==
    IF page = "initStoryPage" THEN {"storyTable", "dailyRecommend"}
    ELSE {TableOf(page)}

PageInit ==
    /\ Loaded
    /\ \E page \in PageInits :
          tables = [t \in Views |-> IF t \in ViewsOn(page) THEN "<markup>"
                                    ELSE "<no element>"]

\* A response of the page's backend arrives.
PageBodySettles(s, body) ==
    /\ AnswerFor(calls[s].op, body)
    /\ BodySettles(s, body)

\* The four page initializers and the submit handlers they bind, overlapping;
\* a login makes the footprint page reachable.
PageNext ==
    \E s \in 1 .. PageCalls :
        \/ LoginCall(s, <<"v", "v">>)
        \/ \E page \in PageInits : PageInitCall(s, page)
        \/ \E form \in Forms : \E f \in PageFields(Required(SubmitOp(form))) :
              SubmitCall(s, form, f)
        \/ \E net \in NetOutcomes : FetchSettles(s, net)
        \/ \E body \in PageBodies : PageBodySettles(s, body)

PageSpec == PageInit /\ [][PageNext]_vars

\* The edit dialogs opened from the rows of a list, with or without an id.
ModalNext ==
    \E s \in 1 .. ModalCalls :
        \/ \E opener \in ModalOpeners : \E id \in FieldVals : OpenModalCall(s, opener, id)
        \/ \E net \in NetOutcomes : FetchSettles(s, net)
        \/ \E body \in ApiBodies : BodySettles(s, body)

ModalSpec == Init /\ [][ModalNext]_vars

\* ------------------------------------------------------------------ claims
\* A string property that carries a non-empty value.
Present(x) == x # Absent /\ x # ""

\* The step just taken is request() returning on a parsed envelope.
EnvelopeStep == last.step = "body" /\ last.body.json = "object"

OkCodes == {Num(200), Str(200)}
UnauthCodes == {Num(401), Str(401)}

\* C1: for every envelope whose code is 200 or "200", request() resolves to
\* exactly the envelope's data, hides every loading indicator and assigns no
\* navigation target.
C1_SuccessResolvesToData ==
    (EnvelopeStep /\ last.op = "request" /\ last.body.code \in OkCodes)
        => /\ last.settled
           /\ ~last.rejected
           /\ last.ret = last.body.data
           /\ \A e \in LoadingEls : loading[e].display = "none"
           /\ last.nav = NoNav

C1_Witness ==
    /\ EnvelopeStep
    /\ last.op = "request"
    /\ last.body.code = Str(200)
    /\ last.ret = Obj(1, Absent, Absent)
    /\ \A e \in LoadingEls : loading[e].display = "none"
    /\ location = StartPage

\* C2: a step of request() assigns a navigation target exactly when it returns
\* on an envelope whose code is 401 or "401", and the target is then the login
\* entry point; a 200 envelope, another code, a non-2xx status, a rejected fetch
\* and malformed JSON assign none.
C2_NavigatesExactlyOn401 ==
    (last.op = "request" \/ (last.step = "call" /\ last.op \in PlainOps))
        => /\ last.nav # NoNav <=> (EnvelopeStep /\ last.body.code \in UnauthCodes)
           /\ last.nav # NoNav => (last.nav = RequestLoginPage /\ location = RequestLoginPage)

C2_Witness ==
    /\ EnvelopeStep
    /\ last.op = "request"
    /\ last.body.code = Str(401)
    /\ location = RequestLoginPage

\* C3: for every envelope whose code is neither 200 nor 401 (number or string),
\* request() resolves to null and the one message shown is the envelope's msg
\* when msg is present (a non-empty string), otherwise the fixed fallback.
C3_BusinessErrorMessage ==
    (EnvelopeStep /\ last.op = "request" /\ last.body.code \notin OkCodes \cup UnauthCodes)
        => /\ last.settled
           /\ last.ret = Null
           /\ last.alerts = <<IF Present(last.body.msg) THEN last.body.msg
                              ELSE MsgOperationFailed>>

C3_Witness ==
    /\ EnvelopeStep
    /\ last.op = "request"
    /\ last.body.code = Str(500)
    /\ last.body.msg = "denied"
    /\ last.ret = Null
    /\ last.alerts = <<"denied">>

\* The step just taken ended an operation without a success envelope: a local
\* check failed, or request() returned on anything but a 200 envelope.
FailureStep == last.settled /\ ~(EnvelopeStep /\ last.body.code \in OkCodes)

\* C4: every failure of request() and of every wrapper built on it (register,
\* story, check-in, collection, order and footprint operations) is reported to
\* the caller as the value null, never as another value or a rejection.
C4_EveryFailureIsNull ==
    (FailureStep /\ last.op \in WrapperOps \cup {"doRegister", "request"})
        => (last.ret = Null /\ ~last.rejected)

\* C5: when the status is non-2xx, or fetch or response.json() throws,
\* request() resolves to null, every loading indicator carries the network
\* failure text in the failure colour, a text other than the business-error
\* one, and nothing is alerted.
C5_TransportFailure ==
    (/\ last.op = "request"
     /\ \/ last.step = "fetch" /\ last.net \in {"error", "notok"}
        \/ last.step = "body" /\ last.body.json \in {"malformed", "null"})
        => /\ last.settled
           /\ ~last.rejected
           /\ last.ret = Null
           /\ last.alerts = <<>>
           /\ last.nav = NoNav
           /\ \A e \in LoadingEls :
                 /\ loading[e].innerHTML = TextNetworkFailed
                 /\ loading[e].innerHTML # TextBusinessFailed
                 /\ loading[e].color = ColorFailed

C5_Witness ==
    /\ last.op = "request"
    /\ last.step = "fetch"
    /\ last.net = "notok"
    /\ last.ret = Null
    /\ \A e \in LoadingEls : loading[e].innerHTML = TextNetworkFailed

\* C6: called while isLogin is false, with any argument, buyCollection,
\* getMyFootprint, addUserFootprint and deleteFootprint return null and issue
\* no network request.
C6_GatedOpsWithoutLogin ==
    (/\ last.step = "call"
     /\ last.op \in {"buyCollection", "getMyFootprint", "addUserFootprint",
                     "deleteFootprint"}
     /\ ~last.wasLogin)
        => /\ last.settled
           /\ last.ret = Null
           /\ ~last.sent
           /\ calls[last.slot] = Idle

C6_Witness ==
    /\ last.step = "call"
    /\ last.op = "deleteFootprint"
    /\ last.confirmed
    /\ ~last.wasLogin
    /\ last.ret = Null
    /\ ~last.sent

\* C7: called while isLogin is false, getPersonalRecommend returns null with
\* no alert, no navigation target and no network request, while each other
\* login-gated wrapper alerts and navigates to the login page.
C7_SilentRecommendGate ==
    (last.step = "call" /\ ~last.wasLogin)
        => /\ last.op = "getPersonalRecommend"
              => /\ last.settled
                 /\ last.ret = Null
                 /\ last.alerts = <<>>
                 /\ last.nav = NoNav
                 /\ ~last.sent
                 /\ calls[last.slot] = Idle
           /\ last.op \in GatedOps
              => /\ Len(last.alerts) = 1
                 /\ last.nav = GateLoginPage
                 /\ location = GateLoginPage

C7_Witness ==
    /\ last.step = "call"
    /\ last.op = "getPersonalRecommend"
    /\ ~last.wasLogin
    /\ last.settled
    /\ last.ret = Null
    /\ last.alerts = <<>>
    /\ location = StartPage


\* The step just taken is initLoginStatus finishing on a 200 envelope that
\* carries an identity.
ProbeSucceeded ==
    /\ EnvelopeStep
    /\ last.body.code \in OkCodes
    /\ last.body.data.k = "object"

\* C8: no step of initLoginStatus assigns a navigation target or rejects; on
\* every outcome of the probe other than a 200 envelope with an identity (a 401
\* envelope, another code, a rejected fetch, malformed JSON, a payload whose
\* processing throws) it finishes with isLogin = false and currentUser = null,
\* whatever the session held, and redraws the login indicator as logged out.
C8_ProbeNeverNavigates ==
    last.op = "initLoginStatus"
        => /\ last.nav = NoNav
           /\ ~last.rejected
           /\ (last.settled /\ ~ProbeSucceeded)
              => /\ isLogin = FALSE
                 /\ currentUser = Null
                 /\ last.redrawn
                 /\ loginView \in {"loginLink", "<no element>"}

C8_Witness ==
    /\ last.op = "initLoginStatus"
    /\ last.settled
    /\ last.wasLogin
    /\ EnvelopeStep
    /\ last.body.code = Str(401)
    /\ isLogin = FALSE
    /\ currentUser = Null
    /\ loginView = "loginLink"
    /\ location = StartPage

\* The step just taken is doLogin's request returning an identity.
LoginYieldedData ==
    /\ EnvelopeStep
    /\ last.body.code \in OkCodes
    /\ last.body.data.k = "object"

\* C9: doLogin returns true or false; true exactly when the login call yielded
\* data, and the session is then authenticated with the returned identity; with
\* an empty username or password it returns false without a network request;
\* whenever it returns false, isLogin and currentUser are left as they were.
C9_LoginReturnsBoolean ==
    last.op = "doLogin"
        => /\ last.step = "call"
              => /\ last.settled <=> (~Present(last.args[1]) \/ ~Present(last.args[2]))
                 /\ last.settled => (last.ret = False /\ ~last.sent)
           /\ last.settled
              => /\ last.ret \in {True, False}
                 /\ last.ret = True <=> LoginYieldedData
                 /\ last.ret = True
                    => /\ isLogin
                       /\ currentUser.k = "object"
                       /\ currentUser.id = last.body.data.id
                       /\ currentUser.avatar = last.body.data.avatar
                 /\ last.ret = False => ~last.sessionChanged

C9_Witness ==
    /\ last.op = "doLogin"
    /\ last.settled
    /\ last.ret = True
    /\ ~last.wasLogin
    /\ isLogin
    /\ currentUser.id = last.body.data.id

\* C10: whenever doLogin or initLoginStatus makes the session authenticated,
\* the stored identity's avatarUrl is the payload's avatarUrl if present (a
\* non-empty string), otherwise the payload's avatar if present, otherwise the
\* default avatar path.
C10_AvatarFallback ==
    (last.op \in {"doLogin", "initLoginStatus"} /\ last.settled /\ LoginYieldedData)
        => /\ isLogin
           /\ currentUser.avatarUrl =
                 IF Present(last.body.data.avatarUrl) THEN last.body.data.avatarUrl
                 ELSE IF Present(last.body.data.avatar) THEN last.body.data.avatar
                 ELSE DEFAULT_AVATAR

C10_Witness ==
    /\ last.op = "doLogin"
    /\ last.settled
    /\ last.body.data = Obj(1, Absent, Absent)
    /\ isLogin
    /\ currentUser.avatarUrl = DEFAULT_AVATAR

\* logout() returned: the step in which its awaited request() came back.
LogoutSettled ==
    last.op \in {"logout", "switchAccount"} /\ last.step \in {"fetch", "body"} /\ last.settled

\* C11: whatever the backend logout call produced (200 envelope, business
\* error, 401 envelope, non-2xx status, network failure), logout() finishes with
\* isLogin = false and currentUser = null, the login indicator redrawn as logged
\* out, and index.html as the last value assigned to location.href.
C11_LogoutAlwaysClears ==
    LogoutSettled =>
        /\ isLogin = FALSE
        /\ currentUser = Null
        /\ last.redrawn
        /\ loginView \in {"loginLink", "<no element>"}
        /\ last.alerts # <<>>
        /\ last.alerts[Len(last.alerts)] = MsgLogoutDone
        /\ last.nav = LandingPage
        /\ location = LandingPage

\* A logged-in user's logout answered by a 401 envelope: request() alerted and
\* assigned the login page, logout() then assigned the landing page.
C11_Witness ==
    /\ LogoutSettled
    /\ last.wasLogin
    /\ last.body.json = "object"
    /\ last.body.code \in UnauthCodes
    /\ Len(last.alerts) = 2
    /\ loginView = "loginLink"
    /\ location = LandingPage

\* C12: after a confirmed switchAccount(), in every interleaving of the logout
\* call's completion and the 500 ms timer, the logout has settled (session
\* cleared, its own navigation issued) before the timer navigates to the login
\* entry point, so that login.html is the final navigation target; an
\* unconfirmed switchAccount() changes nothing.
C12_LogoutSettlesBeforeTimer ==
    /\ last.step = "timer" =>
           /\ last.settled
           /\ isLogin = FALSE
           /\ currentUser = Null
    /\ (last.op = "switchAccount" /\ LogoutSettled) => last.slot \in timers
    /\ (last.op = "switchAccount" /\ last.step = "call" /\ ~last.confirmed) =>
           /\ ~last.sent
           /\ last.alerts = <<>>
           /\ last.nav = NoNav
           /\ timers = {}

\* A page initializer ran to its end in the step just taken.
InitializerDone == last.op \in PageInits /\ last.step \in {"fetch", "body"} /\ last.settled

\* C13: however often a page initializer runs on the same form (one after the
\* other, overlapping while the fetches are in flight, or called again by the
\* submit handler), the form carries exactly one submit handler once an
\* initializer has reached its binding code, and never more than one.  (An
\* initFootprintPage turned away at its login check binds nothing.)
C13_OneSubmitHandler ==
    /\ \A f \in Forms :
          /\ forms[f].handlers <= 1
          /\ forms[f].binded <=> forms[f].handlers = 1
    /\ InitializerDone => \A f \in FormsOf(last.op) : forms[f].handlers = 1

\* A later initializer run ends while another run of the same initializer is
\* still in flight; it found both forms of its page bound and added nothing.
C13_Witness ==
    /\ InitializerDone
    /\ last.op = "initCheckInPage"
    /\ last.added = 0
    /\ \E s \in Slots : calls[s].op = "initCheckInPage"
    /\ forms["checkInForm"].handlers = 1
    /\ forms["editCheckInForm"].handlers = 1

\* C14: when the list fetch of a page initializer fails with a network
\* exception, the table shows the error-state message, which differs from the
\* empty-state message shown for an empty list, and the initializer does not
\* reject.
C14_NetworkFailureShowsErrorState ==
    (InitializerDone /\ last.step = "fetch" /\ last.net = "error") =>
        /\ tables[TableOf(last.op)] = TableFailed
        /\ tables[TableOf(last.op)] # TableEmpty(TableOf(last.op))
        /\ ~last.rejected

\* An indicator as request() sets it before the fetch.
LoadingState == [display |-> "block", innerHTML |-> TextLoading, color |-> ColorLoading]
\* The step just taken is request() returning to a pass-through wrapper.
RequestReturned == last.op = "request" /\ last.step \in {"fetch", "body"} /\ last.settled
SucceededStep == EnvelopeStep /\ last.body.code \in OkCodes
UnauthStep == EnvelopeStep /\ last.body.code \in UnauthCodes
NoneInFlight == \A s \in Slots : calls[s] = Idle
ErrorTexts == {TextBusinessFailed, TextNetworkFailed}

\* C15 as stated: every request() sets the indicators to the loading state
\* before dispatch, and once a call has completed with no other call in flight
\* each indicator is hidden (success) or shows an error message (any failure);
\* no completed call leaves an indicator in the loading state.
C15_NoIndicatorLeftLoading ==
    /\ (last.step = "call" /\ last.sent) => \A e \in LoadingEls : loading[e] = LoadingState
    /\ (RequestReturned /\ NoneInFlight) =>
           \A e \in LoadingEls :
              /\ loading[e] # LoadingState
              /\ IF SucceededStep THEN loading[e].display = "none"
                 ELSE loading[e].innerHTML \in ErrorTexts

\* C15 amended: every request() sets the indicators to the loading state
\* before dispatch; once a call has completed with no other call in flight,
\* each indicator is hidden if the call succeeded and carries an error text in
\* the failure colour if it failed with a business error, a non-2xx status or
\* an exception; an indicator is still in the loading state only after a call
\* answered by a 401 envelope, which leaves the indicators as they were.
C15_LoadingOnlyAfter401 ==
    /\ (last.step = "call" /\ last.sent) => \A e \in LoadingEls : loading[e] = LoadingState
    /\ (RequestReturned /\ NoneInFlight) =>
           \A e \in LoadingEls :
              /\ SucceededStep => loading[e].display = "none"
              /\ (~SucceededStep /\ ~UnauthStep) =>
                     /\ loading[e].innerHTML \in ErrorTexts
                     /\ loading[e].color = ColorFailed
              /\ loading[e] = LoadingState => UnauthStep

\* The only call in flight was answered by a 401 envelope: request() alerted
\* and navigated, and every indicator still shows the loading state.
C15_Witness ==
    /\ RequestReturned
    /\ NoneInFlight
    /\ UnauthStep
    /\ last.nav = RequestLoginPage
    /\ \A e \in LoadingEls : loading[e] = LoadingState

\* The error text request() writes for the failure of the step just taken.
FailureText == IF EnvelopeStep THEN TextBusinessFailed ELSE TextNetworkFailed

\* C16 as stated: with two request() calls in flight over the same indicators,
\* after both have completed the indicator is what the outcome of the
\* last-completing call produces on its own: hidden if that call succeeded, a
\* visible error message in the failure colour if it failed.
C16_LastCompletionDecides ==
    (RequestReturned /\ NoneInFlight /\ ~UnauthStep) =>
        \A e \in LoadingEls :
           IF SucceededStep THEN loading[e].display = "none"
           ELSE loading[e] = [display |-> "block", innerHTML |-> FailureText,
                              color |-> ColorFailed]

\* C16 amended: each completion overwrites only what its outcome writes.  A
\* success hides the indicator and keeps its text and colour; a business or
\* transport failure sets its error text and the failure colour and keeps the
\* visibility; a 401 envelope changes nothing.  So after both calls completed
\* the indicator is hidden if the last one succeeded, and if it failed it
\* carries that failure's text and colour but is visible only if the other
\* call had not hidden it.
C16_CompletionWritesItsOwnFields ==
    [][RequestReturned' =>
          \A e \in LoadingEls :
             IF SucceededStep'
             THEN loading'[e] = [loading[e] EXCEPT !.display = "none"]
             ELSE IF UnauthStep'
             THEN loading'[e] = loading[e]
             ELSE loading'[e] = [loading[e] EXCEPT !.innerHTML = FailureText',
                                                  !.color = ColorFailed]]_vars

\* Two calls were in flight; one succeeded and hid the indicators, then the
\* other failed last: the indicators carry its error text but stay hidden.
C16_Witness ==
    /\ RequestReturned
    /\ NoneInFlight
    /\ ~SucceededStep
    /\ ~UnauthStep
    /\ \A e \in LoadingEls :
          loading[e] = [display |-> "none", innerHTML |-> FailureText, color |-> ColorFailed]

\* The step just taken is the record fetch of an open...EditModal function
\* failing: a business error, a non-2xx status or an exception in request().
FailedModalFetch ==
    /\ last.op \in ModalOpeners
    /\ last.settled
    /\ \/ last.step = "fetch" /\ last.net \in {"error", "notok"}
       \/ last.step = "body" /\ ~SucceededStep /\ ~UnauthStep

\* C17: whenever the single-record fetch of openStoryEditModal,
\* openCheckInEditModal or openCollectionEditModal fails, the dialog and its
\* fields are left as they were and a blocking notice is shown to the user.
C17_FailedFetchAlerts ==
    [][FailedModalFetch' => (modals' = modals /\ last'.alerts # <<>>)]_vars

\* C18: in every state between two event-loop steps, after any sequence and
\* interleaving of initLoginStatus, doLogin and logout with any backend
\* response (a 200 envelope whose data is null or missing included), isLogin
\* is true exactly when currentUser is not null (nor undefined).
C18_SessionConsistent ==
    /\ isLogin <=> currentUser # Null
    /\ currentUser # Undefined

\* A logged-in session probed with a 200 envelope whose data is null: the
\* probe set isLogin, threw on currentUser.avatarUrl, and its catch cleared both.
C18_Witness ==
    /\ last.op = "initLoginStatus"
    /\ last.settled
    /\ last.body.json = "object"
    /\ last.body.code \in OkCodes
    /\ last.body.data = Null
    /\ last.wasLogin
    /\ last.sessionChanged
    /\ ~isLogin
    /\ currentUser = Null

====
